---- MODULE Spec2Model ----
(***************************************************************************)
(* Model of the AgriWater irrigation-needs core:                           *)
(*   - MeteoAPI (src/src/agriwater/meteo_api.py): parsing of the weather   *)
(*     response and the four missing-data strategies;                      *)
(*   - EvapotranspirationCalculator (src/src/agriwater/evapotranspiration  *)
(*     .py): ETc, period aggregates, net/gross need and volumes;           *)
(*   - IrrigationCalculator (src/src/agriwater/irrigation_calculator.py):  *)
(*     the orchestrator that fetches, caches and computes.                 *)
(*                                                                         *)
(* Numbers.  The program computes on floats.  A value is modelled as an    *)
(* exact fraction <<n, d>> in lowest terms with d > 0; the float NaN (a    *)
(* missing value) is <<0, 0>>.  A DataFrame is a sequence of row records;  *)
(* the three temperature columns are handled by the code exactly alike and *)
(* are represented by the column temp_mean.  The API answers with one row  *)
(* per calendar day, so the date of a row is modelled as a day number and  *)
(* consecutive rows of a response are consecutive days.                    *)
(***************************************************************************)
EXTENDS Integers, Sequences, FiniteSets, TLC

VARIABLES
    api_strategy,   \* MeteoAPI: missing_data_strategy of the last call
    api_data,       \* MeteoAPI: the JSON response of the last call
    api_ret,        \* MeteoAPI: what the last call returned or raised
    et_built,       \* engine: TRUE once __init__ has succeeded
    et_weather_data,\* engine: self.weather_data (its own copy)
    et_has_etc,     \* engine: TRUE when the copy has the 'etc' column
    et_crop_kc,     \* engine: self.crop_kc
    et_ret,         \* engine: what the last call returned or raised
    calc_built,     \* orchestrator: TRUE once __init__ has succeeded
    crop_name,      \* orchestrator: self.crop_name
    crop_stage,     \* orchestrator: self.crop_stage
    crop_kc,        \* orchestrator: self.crop_kc
    irrigation_interval, \* orchestrator: self.crop_info["irrigation_interval"]
    surface_ha,     \* orchestrator: self.surface_ha
    weather_loaded, \* orchestrator: self.weather_data is not None
    weather_data,   \* orchestrator: self.weather_data
    calc_ret,       \* orchestrator: what the last call returned or raised
    util_ret,       \* utils: what the last call returned or raised
    cli_pc,         \* CLI: where the session stands
    cli_choice,     \* CLI: the last choice made in the menu now shown
    cli_flows       \* CLI: how each finished calculation flow ended

vars == <<api_strategy, api_data, api_ret,
          et_built, et_weather_data, et_has_etc, et_crop_kc, et_ret,
          calc_built, crop_name, crop_stage, crop_kc, irrigation_interval,
          surface_ha, weather_loaded, weather_data, calc_ret,
          util_ret, cli_pc, cli_choice, cli_flows>>

apiVars == <<api_strategy, api_data, api_ret>>
etVars == <<et_built, et_weather_data, et_has_etc, et_crop_kc, et_ret>>
calcSelf == <<calc_built, crop_name, crop_stage, crop_kc, irrigation_interval,
              surface_ha>>
calcVars == <<calcSelf, weather_loaded, weather_data, calc_ret>>
utilVars == <<util_ret>>
cliVars == <<cli_pc, cli_choice, cli_flows>>

(***************************************************************************)
(* Bounds of the model.                                                    *)
(***************************************************************************)
MaxLen == 3        \* longest weather series
MaxPeriod == 4     \* largest period_days / days_count tried
MaxFlows == 3      \* calculation flows of one CLI session
MantissaBits == 4  \* significand width of the floats of the conversions

(***************************************************************************)
(* Float values as exact fractions.                                        *)
(***************************************************************************)
Abs(x) == IF x < 0 THEN -x ELSE x

RECURSIVE GCD(_, _)
GCD(a, b) == IF b = 0 THEN a ELSE GCD(b, a % b)

\* the fraction n/d (d > 0) in lowest terms
Frac(n, d) == LET g == GCD(Abs(n), d) IN <<n \div g, d \div g>>

NaN == <<0, 0>>
isna(x) == x[2] = 0
F(i) == <<i, 1>>

FAdd(x, y) == IF isna(x) \/ isna(y) THEN NaN
              ELSE Frac(x[1] * y[2] + y[1] * x[2], x[2] * y[2])
FSub(x, y) == IF isna(x) \/ isna(y) THEN NaN
              ELSE Frac(x[1] * y[2] - y[1] * x[2], x[2] * y[2])
FMul(x, y) == IF isna(x) \/ isna(y) THEN NaN
              ELSE Frac(x[1] * y[1], x[2] * y[2])
\* x / y for y # 0 (callers guard y > 0)
FDiv(x, y) == IF isna(x) \/ isna(y) \/ y[1] = 0 THEN NaN
              ELSE IF y[1] > 0 THEN Frac(x[1] * y[2], x[2] * y[1])
              ELSE Frac(-(x[1] * y[2]), x[2] * (-y[1]))
\* comparisons: every comparison with NaN is false, as for floats
FLt(x, y) == ~isna(x) /\ ~isna(y) /\ x[1] * y[2] < y[1] * x[2]
FLe(x, y) == ~isna(x) /\ ~isna(y) /\ x[1] * y[2] <= y[1] * x[2]
FGt(x, y) == FLt(y, x)
FGe(x, y) == FLe(y, x)
\* a variant of FMax that does not clamp: the second argument as it is
FMaxNoClamp(a, b) == b
\* Python max(a, b): b if b > a else a
FMax(a, b) == IF FGt(b, a) THEN b ELSE a

RECURSIVE SumSeq(_)
SumSeq(s) == IF s = <<>> THEN F(0) ELSE FAdd(s[1], SumSeq(Tail(s)))

\* a variant of tail that takes the first n rows (Series.head)
head(s, n) == IF n >= Len(s) THEN s ELSE SubSeq(s, 1, n)
\* pandas Series.tail(n) for n >= 0
tail(s, n) == IF n >= Len(s) THEN s
              ELSE SubSeq(s, Len(s) - n + 1, Len(s))
\* pandas Series.sum(): 0 on an empty series
sum(s) == SumSeq(s)
\* a variant of mean that forgets to divide (Series.sum)
meanAsSum(s) == IF s = <<>> THEN NaN ELSE SumSeq(s)
\* pandas Series.mean(): NaN on an empty series
mean(s) == IF s = <<>> THEN NaN ELSE FDiv(SumSeq(s), F(Len(s)))

Column(df, name) == [i \in 1..Len(df) |-> df[i][name]]

(***************************************************************************)
(* MeteoAPI: the weather response and its normalisation.                   *)
(***************************************************************************)
ALLOWED_STRATEGIES == {"raise", "zero", "interpolate", "drop"}

\* the strategy names a caller may pass: the four literals, one of them in
\* another case, and an unrelated name
StrategyNames == ALLOWED_STRATEGIES \cup {"Drop", "unknown"}

NumericColumns == {"temp_mean", "et0_fao", "precipitation"}

\* the values the weather service reports for one day (None is NaN)
TempValues == {NaN, F(10)}
Et0Values == {NaN, F(0), F(3)}
PrecipValues == {NaN, F(2)}

RawRows == [temp_mean : TempValues, et0_fao : Et0Values,
            precipitation : PrecipValues]

RawSeries == UNION {[1..n -> RawRows] : n \in 0..MaxLen}

\* a JSON response: has_keys is FALSE when "daily" or one of its expected
\* keys is absent
Responses == {[has_keys |-> FALSE, daily |-> <<>>]}
             \cup {[has_keys |-> TRUE, daily |-> d] : d \in RawSeries}

NoResponse == [has_keys |-> FALSE, daily |-> <<>>]

\* pd.DataFrame({...}) of the response: one row per day, dated by day number
DataFrame(daily) ==
    [i \in 1..Len(daily) |->
        [date |-> i,
         temp_mean |-> daily[i].temp_mean,
         et0_fao |-> daily[i].et0_fao,
         precipitation |-> daily[i].precipitation]]

RowHasNa(row) == \E c \in NumericColumns : isna(row[c])

\* a variant of AnyNa that looks at the engine's two columns only
AnyNaRequiredOnly(df) ==
    \E i \in 1..Len(df) : isna(df[i].et0_fao) \/ isna(df[i].precipitation)
\* df.isna().any().any()
AnyNa(df) == \E i \in 1..Len(df) : RowHasNa(df[i])

\* a variant of fillna0 that fills the engine's two columns only
fillna0Required(df) ==
    [i \in 1..Len(df) |->
        [c \in DOMAIN df[i] |->
            IF c \in {"et0_fao", "precipitation"} /\ isna(df[i][c]) THEN F(0)
            ELSE df[i][c]]]

\* df.fillna(0)
fillna0(df) ==
    [i \in 1..Len(df) |->
        [c \in DOMAIN df[i] |->
            IF c \in NumericColumns /\ isna(df[i][c]) THEN F(0)
            ELSE df[i][c]]]

\* a variant of dropna that drops a row only when all its values are NaN
\* (dropna(how="all"))
RECURSIVE dropnaAll(_)
dropnaAll(df) ==
    IF df = <<>> THEN <<>>
    ELSE IF \A c \in NumericColumns : isna(df[1][c]) THEN dropnaAll(Tail(df))
    ELSE <<df[1]>> \o dropnaAll(Tail(df))

\* df.dropna(): the rows without NaN, in order
RECURSIVE dropna(_)
dropna(df) ==
    IF df = <<>> THEN <<>>
    ELSE IF RowHasNa(df[1]) THEN dropna(Tail(df))
    ELSE <<df[1]>> \o dropna(Tail(df))

\* a variant of InterpolateColumn that repeats the last known value (ffill)
ffillColumn(col) ==
    [i \in 1..Len(col) |->
        IF ~isna(col[i]) THEN col[i]
        ELSE LET before == {j \in 1..(i - 1) : ~isna(col[j])}
             IN IF before = {} THEN NaN
                ELSE col[CHOOSE j \in before : \A k \in before : k <= j]]

\* pandas linear interpolation of one column (limit_direction = forward):
\* a NaN between two known values lies on the line through them, equally
\* spaced rows; a NaN after the last known value takes that value; a NaN
\* before the first known value stays NaN
InterpolateColumn(col) ==
    [i \in 1..Len(col) |->
        IF ~isna(col[i]) THEN col[i]
        ELSE LET before == {j \in 1..(i - 1) : ~isna(col[j])}
                 after == {j \in (i + 1)..Len(col) : ~isna(col[j])}
             IN IF before = {} THEN NaN
                ELSE LET a == CHOOSE j \in before : \A k \in before : k <= j
                     IN IF after = {} THEN col[a]
                        ELSE LET b == CHOOSE j \in after :
                                          \A k \in after : j <= k
                             IN FAdd(col[a],
                                     FDiv(FMul(FSub(col[b], col[a]), F(i - a)),
                                          F(b - a)))]

\* df.interpolate(method="linear")
interpolate(df) ==
    [i \in 1..Len(df) |->
        [c \in DOMAIN df[i] |->
            IF c \in NumericColumns THEN InterpolateColumn(Column(df, c))[i]
            ELSE df[i][c]]]

Raised(kind) == [exc |-> kind, df |-> <<>>]
Returned(df) == [exc |-> "None", df |-> df]

\* MeteoAPI._parse_response_to_dataframe
parse_response_to_dataframe(data, missing_data_strategy) ==
    IF ~data.has_keys THEN Raised("WeatherAPIError")
    ELSE LET df_weather == DataFrame(data.daily)
         IN IF AnyNa(df_weather)
            THEN IF missing_data_strategy \notin ALLOWED_STRATEGIES
                     THEN Raised("ValidationError")
                 ELSE IF missing_data_strategy = "raise"
                     THEN Raised("WeatherAPIError")
                 ELSE IF missing_data_strategy = "zero"
                     THEN Returned(fillna0(df_weather))
                 ELSE IF missing_data_strategy = "interpolate"
                     THEN Returned(interpolate(df_weather))
                 ELSE Returned(dropna(df_weather))
            ELSE Returned(df_weather)

\* what requests.get / raise_for_status can do
RequestOutcomes == {"ok", "Timeout", "HTTPError", "RequestException"}

\* a variant of fetch_weather_data that lets the exception of the request
\* through as it is
fetch_weather_data_uncaught(days_count, strategy, outcome, data) ==
    IF days_count <= 0 THEN Raised("ValidationError")
    ELSE IF outcome # "ok" THEN Raised(outcome)
    ELSE parse_response_to_dataframe(data, strategy)

\* MeteoAPI.fetch_weather_data, given the outcome of the request
fetch_weather_data(days_count, missing_data_strategy, outcome, data) ==
    IF days_count <= 0 THEN Raised("ValidationError")
    ELSE IF outcome # "ok" THEN Raised("WeatherAPIError")
    ELSE parse_response_to_dataframe(data, missing_data_strategy)

ApiIdle == [op |-> "none", days_count |-> 0, outcome |-> "ok",
            exc |-> "None", df |-> <<>>]

\* a call, the outcome of the request it made, and how it ended
ApiCall(op, days, outcome, r) ==
    [op |-> op, days_count |-> days, outcome |-> outcome, exc |-> r.exc,
     df |-> r.df]

\* a direct call of the parser, as the tests make it
ParseResponse ==
    /\ api_ret = ApiIdle
    /\ \E data \in Responses, s \in StrategyNames :
          /\ api_data' = data
          /\ api_strategy' = s
          /\ api_ret' = ApiCall("parse", 0, "ok",
                                parse_response_to_dataframe(data, s))
    /\ UNCHANGED <<etVars, calcVars, utilVars, cliVars>>

\* a call of MeteoAPI.fetch_weather_data; the request is made, and answered,
\* only when days_count is accepted
FetchWeatherData ==
    /\ api_ret = ApiIdle
    /\ \E days \in {0, 1}, s \in StrategyNames, o \in RequestOutcomes,
          data \in Responses :
          /\ days <= 0 => o = "ok"
          /\ (days <= 0 \/ o # "ok") => data = NoResponse
          /\ api_data' = data
          /\ api_strategy' = s
          /\ api_ret' = ApiCall("fetch", days, o,
                                fetch_weather_data(days, s, o, data))
    /\ UNCHANGED <<etVars, calcVars, utilVars, cliVars>>

\* the caller has the result (or the exception) and may call again
ApiReturn ==
    /\ api_ret # ApiIdle
    /\ api_data' = NoResponse
    /\ api_strategy' = "raise"
    /\ api_ret' = ApiIdle
    /\ UNCHANGED <<etVars, calcVars, utilVars, cliVars>>

(***************************************************************************)
(* EvapotranspirationCalculator.                                           *)
(***************************************************************************)
\* Optional[int]: None is <<>>, the integer n is <<n>>
None == <<>>
Some(n) == <<n>>

required_cols == {"date", "et0_fao", "precipitation"}

EtRaised(kind, e) ==
    [exc |-> kind, value |-> [none |-> TRUE],
     weather_data |-> e.weather_data, has_etc |-> e.has_etc]

EtReturned(v, e) ==
    [exc |-> "None", value |-> v,
     weather_data |-> e.weather_data, has_etc |-> e.has_etc]

\* a variant of EngineInit that rejects the ends of the kc range
EngineInitOpenRange(columns, weather, kc) ==
    IF ~(required_cols \subseteq columns) THEN "CalculationError"
    ELSE IF ~(FLt(F(0), kc) /\ FLt(kc, F(2))) THEN "ValidationError"
    ELSE IF \E i \in 1..Len(weather) :
                isna(weather[i].et0_fao) \/ isna(weather[i].precipitation)
        THEN "ValidationError"
    ELSE "None"

\* EvapotranspirationCalculator.__init__: the exception it raises, or "None"
EngineInit(columns, weather, kc) ==
    IF ~(required_cols \subseteq columns) THEN "CalculationError"
    ELSE IF ~(FLe(F(0), kc) /\ FLe(kc, F(2))) THEN "ValidationError"
    ELSE IF \E i \in 1..Len(weather) :
                isna(weather[i].et0_fao) \/ isna(weather[i].precipitation)
        THEN "ValidationError"
    ELSE "None"

\* the engine right after a successful __init__: a copy of the series
NewEngine(weather, kc) ==
    [weather_data |-> weather, has_etc |-> FALSE, crop_kc |-> kc]

\* a variant of WithEtc that adds kc to et0 instead of multiplying
WithEtcSum(e) ==
    [weather_data |->
        [i \in 1..Len(e.weather_data) |->
            [c \in (DOMAIN e.weather_data[i]) \cup {"etc"} |->
                IF c = "etc" THEN FAdd(e.weather_data[i].et0_fao, e.crop_kc)
                ELSE e.weather_data[i][c]]],
     has_etc |-> TRUE,
     crop_kc |-> e.crop_kc]

\* self.weather_data['etc'] = self.weather_data['et0_fao'] * self.crop_kc
WithEtc(e) ==
    [weather_data |->
        [i \in 1..Len(e.weather_data) |->
            [c \in (DOMAIN e.weather_data[i]) \cup {"etc"} |->
                IF c = "etc" THEN FMul(e.weather_data[i].et0_fao, e.crop_kc)
                ELSE e.weather_data[i][c]]],
     has_etc |-> TRUE,
     crop_kc |-> e.crop_kc]

calculate_etc(e) ==
    LET e1 == WithEtc(e) IN EtReturned([df |-> e1.weather_data], e1)

calculate_cumulative_precipitation(e, period_days) ==
    IF period_days <= 0 THEN EtRaised("ValidationError", e)
    ELSE IF period_days > Len(e.weather_data)
        THEN EtRaised("ValidationError", e)
    ELSE EtReturned(
            [float |-> sum(tail(Column(e.weather_data, "precipitation"),
                                period_days))], e)

calculate_average_etc(e, period_days) ==
    IF period_days # None /\ period_days[1] <= 0
        THEN EtRaised("ValidationError", e)
    ELSE LET e1 == IF ~e.has_etc THEN WithEtc(e) ELSE e
             etc == Column(e1.weather_data, "etc")
             etc_values == IF period_days # None
                               THEN tail(etc, period_days[1])
                           ELSE etc
         IN EtReturned([float |-> mean(etc_values)], e1)

\* a variant of calculate_irrigation_need that accepts an efficiency of 0
calculate_irrigation_need_eff0(e, period_days, efficiency) ==
    IF period_days <= 0 THEN EtRaised("ValidationError", e)
    ELSE IF ~(FLe(F(0), efficiency) /\ FLe(efficiency, F(1)))
        THEN EtRaised("ValidationError", e)
    ELSE LET e1 == IF ~e.has_etc THEN WithEtc(e) ELSE e
             precip == calculate_cumulative_precipitation(e1, period_days)
         IN IF precip.exc # "None" THEN precip
            ELSE EtReturned([avg_etc_mm_day |-> F(0),
                             total_etc_mm |-> F(0),
                             total_precipitation_mm |-> precip.value.float,
                             net_irrigation_need_mm |-> F(0),
                             gross_irrigation_need_mm |-> F(0)], e1)

calculate_irrigation_need(e, period_days, efficiency) ==
    IF period_days <= 0 THEN EtRaised("ValidationError", e)
    ELSE IF ~(FLt(F(0), efficiency) /\ FLe(efficiency, F(1)))
        THEN EtRaised("ValidationError", e)
    ELSE LET e1 == IF ~e.has_etc THEN WithEtc(e) ELSE e
             avg == calculate_average_etc(e1, Some(period_days))
             avg_etc == avg.value.float
             total_etc == FMul(avg_etc, F(period_days))
             precip == calculate_cumulative_precipitation(e1, period_days)
         IN IF precip.exc # "None" THEN precip
            ELSE LET total_precipitation == precip.value.float
                     net_irrigation_need ==
                         FMax(F(0), FSub(total_etc, total_precipitation))
                     gross_irrigation_need ==
                         IF FGt(net_irrigation_need, F(0))
                             THEN FDiv(net_irrigation_need, efficiency)
                         ELSE F(0)
                 IN EtReturned(
                        [avg_etc_mm_day |-> avg_etc,
                         total_etc_mm |-> total_etc,
                         total_precipitation_mm |-> total_precipitation,
                         net_irrigation_need_mm |-> net_irrigation_need,
                         gross_irrigation_need_mm |-> gross_irrigation_need],
                        e1)

\* a variant of calculate_irrigation_volume that leaves the surface out of
\* the volumes
calculate_irrigation_volume_per_ha(e, surface, period_days, efficiency) ==
    IF FLe(surface, F(0)) THEN EtRaised("ValidationError", e)
    ELSE LET need == calculate_irrigation_need(e, period_days, efficiency)
         IN IF need.exc # "None" THEN need
            ELSE LET irrigation_needs == need.value
                 IN [need EXCEPT !.value =
                        [k \in (DOMAIN irrigation_needs)
                               \cup {"surface_ha", "net_volume_m3",
                                     "gross_volume_m3"} |->
                            IF k = "surface_ha" THEN surface
                            ELSE IF k = "net_volume_m3"
                                THEN FMul(irrigation_needs
                                              .net_irrigation_need_mm, F(10))
                            ELSE IF k = "gross_volume_m3"
                                THEN FMul(irrigation_needs
                                              .gross_irrigation_need_mm, F(10))
                            ELSE irrigation_needs[k]]]

calculate_irrigation_volume(e, surface, period_days, efficiency) ==
    IF FLe(surface, F(0)) THEN EtRaised("ValidationError", e)
    ELSE LET need == calculate_irrigation_need(e, period_days, efficiency)
         IN IF need.exc # "None" THEN need
            ELSE LET irrigation_needs == need.value
                     net_volume_m3 ==
                         FMul(FMul(irrigation_needs.net_irrigation_need_mm,
                                   F(10)), surface)
                     gross_volume_m3 ==
                         FMul(FMul(irrigation_needs.gross_irrigation_need_mm,
                                   F(10)), surface)
                 IN [need EXCEPT !.value =
                        [k \in (DOMAIN irrigation_needs)
                               \cup {"surface_ha", "net_volume_m3",
                                     "gross_volume_m3"} |->
                            IF k = "surface_ha" THEN surface
                            ELSE IF k = "net_volume_m3" THEN net_volume_m3
                            ELSE IF k = "gross_volume_m3" THEN gross_volume_m3
                            ELSE irrigation_needs[k]]]

\* the inputs tried on the engine
EngineColumnSets == {required_cols, {"date", "eto", "precipitation"}}
EngineEt0Values == {NaN, F(0), F(3)}
EnginePrecipValues == {NaN, F(0), F(4)}
EngineRows(i) == [date : {i}, et0_fao : EngineEt0Values,
                  precipitation : EnginePrecipValues]
EngineSeries ==
    UNION {{s \in [1..n -> UNION {EngineRows(i) : i \in 1..n}] :
                \A i \in 1..n : s[i].date = i} : n \in 0..MaxLen}
KcValues == {Frac(-1, 10), F(0), Frac(6, 5), F(2), Frac(5, 2)}
Periods == (-1)..MaxPeriod
OptPeriods == {None} \cup {Some(n) : n \in Periods}
Efficiencies == {F(0), Frac(4, 5), F(1), Frac(6, 5)}
Surfaces == {F(0), Frac(5, 2)}

EtIdle == [op |-> "none", args |-> [none |-> TRUE], exc |-> "None",
           value |-> [none |-> TRUE]]

Self == [weather_data |-> et_weather_data, has_etc |-> et_has_etc,
         crop_kc |-> et_crop_kc]

\* the engine after a method call that ended as r, and what the caller got
EtAfter(op, args, r) ==
    /\ et_ret' = [op |-> op, args |-> args, exc |-> r.exc, value |-> r.value]
    /\ et_weather_data' = r.weather_data
    /\ et_has_etc' = r.has_etc
    /\ UNCHANGED <<et_built, et_crop_kc, apiVars, calcVars, utilVars,
                   cliVars>>

EtConstruct ==
    /\ ~et_built
    /\ et_ret = EtIdle
    /\ \E columns \in EngineColumnSets, weather \in EngineSeries,
          kc \in KcValues :
          LET exc == EngineInit(columns, weather, kc)
              e == NewEngine(weather, kc)
          IN /\ et_ret' = [op |-> "init",
                           args |-> [columns |-> columns,
                                     weather_data |-> weather,
                                     crop_kc |-> kc],
                           exc |-> exc, value |-> [none |-> TRUE]]
             /\ IF exc = "None"
                    THEN /\ et_built' = TRUE
                         /\ et_weather_data' = e.weather_data
                         /\ et_has_etc' = e.has_etc
                         /\ et_crop_kc' = e.crop_kc
                ELSE UNCHANGED <<et_built, et_weather_data, et_has_etc,
                                 et_crop_kc>>
    /\ UNCHANGED <<apiVars, calcVars, utilVars, cliVars>>

EtCalculateEtc ==
    /\ et_built
    /\ et_ret = EtIdle
    /\ EtAfter("calculate_etc", [none |-> TRUE], calculate_etc(Self))

EtCumulativePrecipitation ==
    /\ et_built
    /\ et_ret = EtIdle
    /\ \E p \in Periods :
          EtAfter("calculate_cumulative_precipitation", [period_days |-> p],
                  calculate_cumulative_precipitation(Self, p))

EtAverageEtc ==
    /\ et_built
    /\ et_ret = EtIdle
    /\ \E p \in OptPeriods :
          EtAfter("calculate_average_etc", [period_days |-> p],
                  calculate_average_etc(Self, p))

EtIrrigationNeed ==
    /\ et_built
    /\ et_ret = EtIdle
    /\ \E p \in Periods, eff \in Efficiencies :
          EtAfter("calculate_irrigation_need",
                  [period_days |-> p, efficiency |-> eff],
                  calculate_irrigation_need(Self, p, eff))

EtIrrigationVolume ==
    /\ et_built
    /\ et_ret = EtIdle
    /\ \E s \in Surfaces, p \in Periods, eff \in Efficiencies :
          EtAfter("calculate_irrigation_volume",
                  [surface_ha |-> s, period_days |-> p, efficiency |-> eff],
                  calculate_irrigation_volume(Self, s, p, eff))

\* the caller has the result (or the exception) and may call again
EtReturn ==
    /\ et_ret # EtIdle
    /\ et_ret' = EtIdle
    /\ UNCHANGED <<et_built, et_weather_data, et_has_etc, et_crop_kc,
                   apiVars, calcVars, utilVars, cliVars>>

(***************************************************************************)
(* utils: validation of the caller's values.  A value a caller passes is   *)
(* a number or something else (a string, None).                            *)
(***************************************************************************)
Num(x) == [is_number |-> TRUE, value |-> x]
NotANumber == [is_number |-> FALSE, value |-> F(0)]

\* a variant of coordinates_errors with open ranges (< instead of <=)
coordinates_errors_open(latitude, longitude) ==
    LET types == (IF ~latitude.is_number THEN <<"latitude type">> ELSE <<>>)
                 \o (IF ~longitude.is_number THEN <<"longitude type">>
                     ELSE <<>>)
    IN IF types # <<>> THEN types
       ELSE (IF ~(FLt(F(-90), latitude.value) /\ FLt(latitude.value, F(90)))
                 THEN <<"latitude range">> ELSE <<>>)
            \o (IF ~(FLt(F(-180), longitude.value)
                     /\ FLt(longitude.value, F(180)))
                    THEN <<"longitude range">> ELSE <<>>)

\* utils.coordinates_validation: the list of errors it joins and raises
coordinates_errors(latitude, longitude) ==
    LET types == (IF ~latitude.is_number THEN <<"latitude type">> ELSE <<>>)
                 \o (IF ~longitude.is_number THEN <<"longitude type">>
                     ELSE <<>>)
    IN IF types # <<>> THEN types
       ELSE (IF ~(FLe(F(-90), latitude.value) /\ FLe(latitude.value, F(90)))
                 THEN <<"latitude range">> ELSE <<>>)
            \o (IF ~(FLe(F(-180), longitude.value)
                     /\ FLe(longitude.value, F(180)))
                    THEN <<"longitude range">> ELSE <<>>)

\* utils.coordinates_validation: the exception it raises, or "None"
coordinates_validation(latitude, longitude) ==
    IF coordinates_errors(latitude, longitude) # <<>> THEN "ValidationError"
    ELSE "None"

\* utils.validate_area: the exception it raises, or "None"
validate_area(area_ha) ==
    IF ~area_ha.is_number THEN "ValidationError"
    ELSE IF FLe(area_ha.value, F(0)) THEN "ValidationError"
    ELSE "None"

(***************************************************************************)
(* utils: the unit conversions.  Their arguments and results are Python    *)
(* floats: binary floating point, every operation rounded to the nearest   *)
(* value of the format (ties to even).  The model keeps the rounding and   *)
(* narrows the significand to MantissaBits bits (53 in the program); the   *)
(* exponent range is left unbounded.                                       *)
(***************************************************************************)
RECURSIVE Pow2(_)
Pow2(k) == IF k = 0 THEN 1 ELSE 2 * Pow2(k - 1)

\* n/d > 0 scaled by 2^(-k) into [2^(MantissaBits-1), 2^MantissaBits)
RECURSIVE Normalize(_, _, _)
Normalize(n, d, k) ==
    IF n >= d * Pow2(MantissaBits) THEN Normalize(n, 2 * d, k + 1)
    ELSE IF n < d * Pow2(MantissaBits - 1) THEN Normalize(2 * n, d, k - 1)
    ELSE <<n, d, k>>

\* the float nearest to the fraction n/d > 0, ties to the even significand
RoundPositive(n, d) ==
    LET s == Normalize(n, d, 0)
        q == s[1] \div s[2]
        r == s[1] % s[2]
        m == IF 2 * r > s[2] THEN q + 1
             ELSE IF 2 * r < s[2] THEN q
             ELSE IF q % 2 = 0 THEN q ELSE q + 1
    IN IF s[3] >= 0 THEN Frac(m * Pow2(s[3]), 1) ELSE Frac(m, Pow2(-s[3]))

\* the float nearest to the real number x
float_round(x) ==
    IF isna(x) THEN NaN
    ELSE IF x[1] = 0 THEN F(0)
    ELSE IF x[1] > 0 THEN RoundPositive(x[1], x[2])
    ELSE LET p == RoundPositive(-x[1], x[2]) IN <<-p[1], p[2]>>

\* float * float and float / float
float_mul(x, y) == float_round(FMul(x, y))
float_div(x, y) == float_round(FDiv(x, y))

\* utils.convert_mm_to_m3_per_ha
convert_mm_to_m3_per_ha(mm) == float_mul(mm, F(10))

\* utils.convert_m3_to_mm: the exception it raises, or "None"
convert_m3_to_mm_raises(m3, surface) ==
    IF FLe(surface, F(0)) THEN "ValidationError" ELSE "None"

\* utils.convert_m3_to_mm: the value it returns when it does not raise
convert_m3_to_mm(m3, surface) ==
    float_div(m3, float_mul(F(10), surface))

\* the floats tried as coordinates, depths and surfaces
CoordLatitudes ==
    {Num(F(-91)), Num(F(-90)), Num(F(43)), Num(F(90)), Num(Frac(181, 2)),
     Num(NaN), NotANumber}
CoordLongitudes ==
    {Num(F(-181)), Num(F(-180)), Num(F(3)), Num(F(180)), Num(F(200)),
     Num(NaN), NotANumber}
Depths == {float_round(F(i)) : i \in 0..15} \cup {float_round(Frac(5, 2))}
FloatSurfaces ==
    {float_round(x) : x \in {F(-1), F(0), F(1), F(2), Frac(5, 2), F(3), F(7)}}

UtilIdle ==
    [op |-> "none", args |-> <<>>, exc |-> "None", value |-> NaN,
     errors |-> <<>>]

\* a caller calls coordinates_validation(latitude, longitude)
UtCoordinatesValidation ==
    /\ util_ret = UtilIdle
    /\ \E latitude \in CoordLatitudes, longitude \in CoordLongitudes :
          util_ret' = [op |-> "coordinates_validation",
                       args |-> <<latitude, longitude>>,
                       exc |-> coordinates_validation(latitude, longitude),
                       value |-> NaN,
                       errors |-> IF coordinates_validation(latitude,
                                                            longitude)
                                     = "None" THEN <<>>
                                  ELSE coordinates_errors(latitude,
                                                          longitude)]
    /\ UNCHANGED <<apiVars, etVars, calcVars, cliVars>>

\* a caller calls convert_m3_to_mm(m3, surface_ha)
UtConvertM3ToMm ==
    /\ util_ret = UtilIdle
    /\ \E m3 \in Depths, surface \in FloatSurfaces :
          util_ret' = [op |-> "convert_m3_to_mm",
                       args |-> <<m3, surface>>,
                       exc |-> convert_m3_to_mm_raises(m3, surface),
                       value |-> IF convert_m3_to_mm_raises(m3, surface)
                                    = "None"
                                 THEN convert_m3_to_mm(m3, surface)
                                 ELSE NaN,
                       errors |-> <<>>]
    /\ UNCHANGED <<apiVars, etVars, calcVars, cliVars>>

\* a caller converts a depth to the volume of its surface and back:
\* m3 = convert_mm_to_m3_per_ha(mm) * surface; convert_m3_to_mm(m3, surface)
UtRoundTrip ==
    /\ util_ret = UtilIdle
    /\ \E mm \in Depths, surface \in FloatSurfaces :
          \E m3 \in {float_mul(convert_mm_to_m3_per_ha(mm), surface)} :
             util_ret' = [op |-> "round_trip",
                          args |-> <<mm, surface>>,
                          exc |-> convert_m3_to_mm_raises(m3, surface),
                          value |-> IF convert_m3_to_mm_raises(m3, surface)
                                       = "None"
                                    THEN convert_m3_to_mm(m3, surface)
                                    ELSE NaN,
                          errors |-> <<>>]
    /\ UNCHANGED <<apiVars, etVars, calcVars, cliVars>>

\* the caller has the result (or the exception) and may call again
UtReturn ==
    /\ util_ret # UtilIdle
    /\ util_ret' = UtilIdle
    /\ UNCHANGED <<apiVars, etVars, calcVars, cliVars>>

(***************************************************************************)
(* CropDatabase.  The crop table (data/crops_parameters.json) is data of   *)
(* the installation; a table of one crop with two stages stands for it.    *)
(***************************************************************************)
CropData ==
    [c \in {"wheat"} |->
        [full_name |-> "Wheat",
         phenological_stages |->
            [st \in {"initial", "mid_season"} |->
                [kc |-> IF st = "initial" THEN Frac(2, 3) ELSE Frac(6, 5)]],
         irrigation_interval |-> <<1, 2>>]]

\* str.lower() on the names tried
lower(name) ==
    IF name = "WHEAT" THEN "wheat"
    ELSE IF name = "Mid_Season" THEN "mid_season"
    ELSE name

get_available_crops == DOMAIN CropData

\* CropDatabase.validate_crop_and_stage: the exception it raises, or "None"
validate_crop_and_stage(name, stage) ==
    IF lower(name) \notin get_available_crops THEN "ValueError"
    ELSE IF lower(stage)
               \notin DOMAIN CropData[lower(name)].phenological_stages
        THEN "ValueError"
    ELSE "None"

get_kc_for_stage(name, stage) ==
    CropData[lower(name)].phenological_stages[stage].kc

\* a variant of MaxOf that takes the shortest recommended interval (min())
MinOf(interval) ==
    IF interval[2] < interval[1] THEN interval[2] ELSE interval[1]

\* Python max() of the two-element interval
MaxOf(interval) ==
    IF interval[2] > interval[1] THEN interval[2] ELSE interval[1]

(***************************************************************************)
(* IrrigationCalculator.                                                   *)
(***************************************************************************)
\* the columns of the DataFrame MeteoAPI builds
ApiColumns == {"date", "temp_min", "temp_mean", "temp_max", "et0_fao",
               "precipitation"}

\* nb_days of IrrigationCalculator.fetch_weather_data when not given
DefaultNbDays == 7

\* the orchestrator object, from the variables
Calc == [loaded |-> weather_loaded, weather_data |-> weather_data,
         crop_name |-> crop_name, crop_stage |-> crop_stage,
         crop_kc |-> crop_kc, irrigation_interval |-> irrigation_interval,
         surface_ha |-> surface_ha]

\* how a method call ended: the exception or the value, the stored series
\* after it, and the days_count of each call of MeteoAPI.fetch_weather_data
\* it made
\* (no raise of the orchestrator or of MeteoAPI has a "from" clause, and the
\* orchestrator catches nothing: an exception surfaces as it was raised, with
\* no __cause__)
CalcRaised(kind, o, fetched) ==
    [exc |-> kind, cause |-> "None", value |-> [none |-> TRUE],
     loaded |-> o.loaded, weather_data |-> o.weather_data,
     fetched |-> fetched]
CalcReturned(v, o, fetched) ==
    [exc |-> "None", cause |-> "None", value |-> v, loaded |-> o.loaded,
     weather_data |-> o.weather_data, fetched |-> fetched]

\* what the weather service does with a request: the outcome of the request
\* and the response when there is one
Weather(outcome, data) == [outcome |-> outcome, data |-> data]

\* a variant of calc_fetch_weather_data that forgets the series held when the
\* fetch fails
calc_fetch_weather_data_clears(o, nb_days, w) ==
    LET r == fetch_weather_data(nb_days, "raise", w.outcome, w.data)
    IN IF r.exc # "None"
           THEN CalcRaised(r.exc, [o EXCEPT !.loaded = FALSE,
                                            !.weather_data = <<>>],
                           <<nb_days>>)
       ELSE LET o1 == [o EXCEPT !.loaded = TRUE, !.weather_data = r.df]
            IN CalcReturned([df |-> r.df], o1, <<nb_days>>)

\* a variant of calc_fetch_weather_data that asks MeteoAPI to interpolate
calc_fetch_weather_data_interpolate(o, nb_days, w) ==
    LET r == fetch_weather_data(nb_days, "interpolate", w.outcome, w.data)
    IN IF r.exc # "None" THEN CalcRaised(r.exc, o, <<nb_days>>)
       ELSE LET o1 == [o EXCEPT !.loaded = TRUE, !.weather_data = r.df]
            IN CalcReturned([df |-> r.df], o1, <<nb_days>>)

\* IrrigationCalculator.fetch_weather_data
calc_fetch_weather_data(o, nb_days, w) ==
    LET r == fetch_weather_data(nb_days, "raise", w.outcome, w.data)
    IN IF r.exc # "None" THEN CalcRaised(r.exc, o, <<nb_days>>)
       ELSE LET o1 == [o EXCEPT !.loaded = TRUE, !.weather_data = r.df]
            IN CalcReturned([df |-> r.df], o1, <<nb_days>>)

\* a Python local: the value v, computed once, in the rest of the body
Local(v, Body(_)) == CHOOSE r \in {Body(x) : x \in {v}} : TRUE

\* a variant of fetch_if_none that fetches whether a series is held or not
fetch_always(o, nb_days, w) == calc_fetch_weather_data(o, nb_days, w)

\* a variant of fetch_if_none that asks the weather source again when the
\* fetch failed
fetch_with_retry(o, nb_days, w) ==
    IF ~o.loaded
        THEN LET r == calc_fetch_weather_data(o, nb_days, w)
             IN IF r.exc # "None"
                    THEN [r EXCEPT !.fetched = <<nb_days, nb_days>>]
                ELSE r
    ELSE CalcReturned([none |-> TRUE], o, <<>>)

\* a variant of AfterEngine for an engine that works on the orchestrator's
\* frame itself
AfterEngineAliased(o, r) == [o EXCEPT !.weather_data = r.weather_data]

\* the orchestrator after the engine has worked: the engine holds a copy of
\* the series (weather_data.copy()), what it does to it stays in the engine
AfterEngine(o, r) == o

\* lines 132-134 of calculate_irrigation_needs, and 210-211 of
\* get_weather_summary: fetch when no series is held
fetch_if_none(o, nb_days, w) ==
    IF ~o.loaded THEN calc_fetch_weather_data(o, nb_days, w)
    ELSE CalcReturned([none |-> TRUE], o, <<>>)

\* IrrigationCalculator.calculate_irrigation_needs
calculate_irrigation_needs(o, period_days, efficiency, w) ==
    LET nb_days == IF period_days # None /\ period_days[1] # 0
                       THEN period_days[1]
                   ELSE MaxOf(o.irrigation_interval)
        period == IF period_days = None THEN MaxOf(o.irrigation_interval)
                  ELSE period_days[1]
    IN Local(fetch_if_none(o, nb_days, w), LAMBDA f :
        IF f.exc # "None" THEN f
        ELSE IF EngineInit(ApiColumns, f.weather_data, o.crop_kc) # "None"
            THEN CalcRaised(EngineInit(ApiColumns, f.weather_data,
                                       o.crop_kc), f, f.fetched)
        ELSE Local(calculate_irrigation_volume(
                       NewEngine(f.weather_data, o.crop_kc), o.surface_ha,
                       period, efficiency),
                   LAMBDA results :
                       IF results.exc # "None"
                           THEN CalcRaised(results.exc,
                                           AfterEngine(f, results), f.fetched)
                       ELSE CalcReturned(results.value,
                                         AfterEngine(f, results), f.fetched)))

\* IrrigationCalculator.get_weather_summary
get_weather_summary(o, w) ==
    Local(fetch_if_none(o, DefaultNbDays, w), LAMBDA f :
        IF f.exc # "None" THEN f
        ELSE IF EngineInit(ApiColumns, f.weather_data, o.crop_kc) # "None"
            THEN CalcRaised(EngineInit(ApiColumns, f.weather_data,
                                       o.crop_kc), f, f.fetched)
        ELSE Local(calculate_etc(NewEngine(f.weather_data, o.crop_kc)),
                   LAMBDA weather_with_etc :
                       CalcReturned(weather_with_etc.value,
                                    AfterEngine(f, weather_with_etc),
                                    f.fetched)))

\* IrrigationCalculator.export_results_to_csv: the one-row frame it writes
\* and returns, the results followed by the crop's metadata (the coordinates
\* and the timestamp are left out)
export_results_to_csv(o, period_days, efficiency, w) ==
    Local(calculate_irrigation_needs(o, period_days, efficiency, w),
          LAMBDA r :
              IF r.exc # "None" THEN r
              ELSE [r EXCEPT
                      !.value = [results |-> r.value,
                                 crop |-> CropData[o.crop_name].full_name,
                                 crop_stage |-> o.crop_stage,
                                 kc |-> o.crop_kc]])

\* a variant of agronomic_summary that reports the volume of one hectare as
\* the total volume
agronomic_summary_per_ha(results, o, period_days) ==
    LET total_precip_mm == results.total_precipitation_mm
        total_etc_mm == FMul(results.avg_etc_mm_day, F(period_days))
        water_balance_mm == FSub(total_precip_mm, total_etc_mm)
        irrigation_required == FLt(water_balance_mm, F(0))
        recommended_mm == IF irrigation_required
                              THEN FSub(F(0), water_balance_mm)
                          ELSE F(0)
        recommended_m3_per_ha == FMul(recommended_mm, F(10))
    IN [period_days |-> period_days,
        total_precip_mm |-> total_precip_mm,
        total_etc_mm |-> total_etc_mm,
        water_balance_mm |-> water_balance_mm,
        irrigation_required |-> irrigation_required,
        recommended_mm |-> recommended_mm,
        recommended_m3_per_ha |-> recommended_m3_per_ha,
        recommended_total_m3 |-> recommended_m3_per_ha,
        surface_ha |-> o.surface_ha,
        crop_name |-> o.crop_name,
        crop_stage |-> o.crop_stage]

\* a variant of the decision rule that irrigates on a zero balance too
agronomic_summary_le(results, o, period_days) ==
    LET total_precip_mm == results.total_precipitation_mm
        total_etc_mm == FMul(results.avg_etc_mm_day, F(period_days))
        water_balance_mm == FSub(total_precip_mm, total_etc_mm)
        irrigation_required == FLe(water_balance_mm, F(0))
        recommended_mm == IF irrigation_required
                              THEN FSub(F(0), water_balance_mm)
                          ELSE F(0)
        recommended_m3_per_ha == FMul(recommended_mm, F(10))
    IN [period_days |-> period_days,
        total_precip_mm |-> total_precip_mm,
        total_etc_mm |-> total_etc_mm,
        water_balance_mm |-> water_balance_mm,
        irrigation_required |-> irrigation_required,
        recommended_mm |-> recommended_mm,
        recommended_m3_per_ha |-> recommended_m3_per_ha,
        recommended_total_m3 |-> FMul(recommended_m3_per_ha, o.surface_ha),
        surface_ha |-> o.surface_ha,
        crop_name |-> o.crop_name,
        crop_stage |-> o.crop_stage]

\* the summary generate_agronomic_summary derives from the results of
\* calculate_irrigation_needs
agronomic_summary(results, o, period_days) ==
    LET total_precip_mm == results.total_precipitation_mm
        total_etc_mm == FMul(results.avg_etc_mm_day, F(period_days))
        water_balance_mm == FSub(total_precip_mm, total_etc_mm)
        irrigation_required == FLt(water_balance_mm, F(0))
        recommended_mm == IF irrigation_required
                              THEN FSub(F(0), water_balance_mm)
                          ELSE F(0)
        recommended_m3_per_ha == FMul(recommended_mm, F(10))
    IN [period_days |-> period_days,
        total_precip_mm |-> total_precip_mm,
        total_etc_mm |-> total_etc_mm,
        water_balance_mm |-> water_balance_mm,
        irrigation_required |-> irrigation_required,
        recommended_mm |-> recommended_mm,
        recommended_m3_per_ha |-> recommended_m3_per_ha,
        recommended_total_m3 |-> FMul(recommended_m3_per_ha, o.surface_ha),
        surface_ha |-> o.surface_ha,
        crop_name |-> o.crop_name,
        crop_stage |-> o.crop_stage]

\* IrrigationCalculator.generate_agronomic_summary
generate_agronomic_summary(o, period_days, efficiency, w) ==
    Local(calculate_irrigation_needs(o, Some(period_days), efficiency, w),
          LAMBDA r :
              IF r.exc # "None" THEN r
              ELSE [r EXCEPT
                      !.value = agronomic_summary(r.value, o, period_days)])

(***************************************************************************)
(* The calls a user of IrrigationCalculator makes.                         *)
(***************************************************************************)
Latitudes == {Num(F(43)), Num(F(91)), NotANumber}
Longitudes == {Num(F(3)), Num(F(-181)), NotANumber}
CropNames == {"wheat", "WHEAT", "potatoes"}
CropStages == {"mid_season", "initial", "flowering"}
Areas == {Num(F(1)), Num(Frac(5, 2)), Num(F(0)), NotANumber}
NbDays == {0, 2, DefaultNbDays}
CalcEfficiencies == {F(0), Frac(4, 5), F(1)}

\* the responses the weather service gives the orchestrator: days of
\* 2 mm rain with a reference evapotranspiration of 0, of 3 or missing
CalcRawRows == [temp_mean : {F(10)}, et0_fao : Et0Values,
                precipitation : {F(2)}]
CalcResponses ==
    {[has_keys |-> TRUE, daily |-> d] :
        d \in UNION {[1..n -> CalcRawRows] : n \in 0..MaxLen}}
    \cup {NoResponse}

\* a response exists only for a request that was answered
Weathers ==
    {Weather("ok", d) : d \in CalcResponses}
    \cup {Weather(o, NoResponse) : o \in RequestOutcomes \ {"ok"}}

\* and only for a request that was made
Answers(w, fetched) ==
    LET requested == fetched # <<>> /\ fetched[1] > 0
    IN ~requested => w = Weather("ok", NoResponse)

CalcIdle == [op |-> "none", args |-> [none |-> TRUE], exc |-> "None",
             cause |-> "None", value |-> [none |-> TRUE], fetched |-> <<>>]

\* the orchestrator after a method call that ended as r, and what the caller
\* got
CalcAfter(op, args, r) ==
    /\ calc_ret' = [op |-> op, args |-> args, exc |-> r.exc,
                    cause |-> r.cause, value |-> r.value,
                    fetched |-> r.fetched]
    /\ weather_loaded' = r.loaded
    /\ weather_data' = r.weather_data
    /\ UNCHANGED <<calcSelf, apiVars, etVars, utilVars, cliVars>>

\* IrrigationCalculator.__init__: the exception it raises, or "None"
CalcInit(latitude, longitude, name, stage, area) ==
    IF coordinates_validation(latitude, longitude) # "None"
        THEN coordinates_validation(latitude, longitude)
    ELSE IF validate_crop_and_stage(name, stage) # "None"
        THEN validate_crop_and_stage(name, stage)
    ELSE validate_area(area)

CalcConstruct ==
    /\ ~calc_built
    /\ calc_ret = CalcIdle
    /\ \E latitude \in Latitudes, longitude \in Longitudes,
          name \in CropNames, stage \in CropStages, area \in Areas :
          LET exc == CalcInit(latitude, longitude, name, stage, area)
          IN /\ calc_ret' = [op |-> "init",
                             args |-> [latitude |-> latitude,
                                       longitude |-> longitude,
                                       crop_name |-> name,
                                       crop_stage |-> stage,
                                       surface_ha |-> area],
                             exc |-> exc, cause |-> "None",
                             value |-> [none |-> TRUE], fetched |-> <<>>]
             /\ IF exc = "None"
                    THEN /\ calc_built' = TRUE
                         /\ crop_name' = lower(name)
                         /\ crop_stage' = lower(stage)
                         /\ surface_ha' = area.value
                         /\ irrigation_interval' =
                                CropData[lower(name)].irrigation_interval
                         /\ crop_kc' =
                                get_kc_for_stage(lower(name), lower(stage))
                         /\ weather_loaded' = FALSE
                         /\ weather_data' = <<>>
                ELSE UNCHANGED <<calcSelf, weather_loaded, weather_data>>
    /\ UNCHANGED <<apiVars, etVars, utilVars, cliVars>>

CalcFetchWeatherData ==
    /\ calc_built
    /\ calc_ret = CalcIdle
    /\ \E nb_days \in NbDays, w \in Weathers :
          \E r \in {calc_fetch_weather_data(Calc, nb_days, w)} :
             /\ Answers(w, r.fetched)
             /\ CalcAfter("fetch_weather_data", [nb_days |-> nb_days], r)

CalcCalculateIrrigationNeeds ==
    /\ calc_built
    /\ calc_ret = CalcIdle
    /\ \E period_days \in OptPeriods, efficiency \in CalcEfficiencies,
          w \in Weathers :
          \E r \in {calculate_irrigation_needs(Calc, period_days, efficiency,
                                              w)} :
             /\ Answers(w, r.fetched)
             /\ CalcAfter("calculate_irrigation_needs",
                          [period_days |-> period_days,
                           efficiency |-> efficiency], r)

CalcGetWeatherSummary ==
    /\ calc_built
    /\ calc_ret = CalcIdle
    /\ \E w \in Weathers :
          \E r \in {get_weather_summary(Calc, w)} :
             /\ Answers(w, r.fetched)
             /\ CalcAfter("get_weather_summary", [none |-> TRUE], r)

CalcGenerateAgronomicSummary ==
    /\ calc_built
    /\ calc_ret = CalcIdle
    /\ \E period_days \in 1..MaxPeriod, efficiency \in CalcEfficiencies,
          w \in Weathers :
          \E r \in {generate_agronomic_summary(Calc, period_days, efficiency,
                                              w)} :
             /\ Answers(w, r.fetched)
             /\ CalcAfter("generate_agronomic_summary",
                          [period_days |-> Some(period_days),
                           efficiency |-> efficiency], r)

CalcExportResultsToCsv ==
    /\ calc_built
    /\ calc_ret = CalcIdle
    /\ \E period_days \in OptPeriods, efficiency \in CalcEfficiencies,
          w \in Weathers :
          \E r \in {export_results_to_csv(Calc, period_days, efficiency,
                                          w)} :
             /\ Answers(w, r.fetched)
             /\ CalcAfter("export_results_to_csv",
                          [period_days |-> period_days,
                           efficiency |-> efficiency], r)

\* the caller has the result (or the exception) and may call again
CalcReturn ==
    /\ calc_ret # CalcIdle
    /\ calc_ret' = CalcIdle
    /\ UNCHANGED <<calcSelf, weather_loaded, weather_data, apiVars, etVars,
                 utilVars, cliVars>>

(***************************************************************************)
(* AgriWaterCLI: the session loop.  The user's answers and the outcome of  *)
(* the calculation are the environment's choice; the model keeps what      *)
(* run_calculation_flow and post_calculation_menu do with them.  cli_pc    *)
(* is "created" before start(), "loop" at the test of 'while keep_running' *)
(* with keep_running true, "prompts" in steps 1 to 5 of a flow,            *)
(* "calculate" in steps 6 to 8, "menu" at the prompt of the menu, "ended"  *)
(* once start() has returned and "raised" once an exception left start().  *)
(***************************************************************************)
\* what steps 6 to 8 and the actions of the menu can end in: no exception,
\* the typed errors, the user's Ctrl-C, or any other exception
CliOutcomes == {"None", "ValidationError", "CropDataError",
                "WeatherAPIError", "KeyboardInterrupt", "TypeError"}
MenuChoices == {"1", "2", "3", "4", "5"}

\* the except clauses of run_calculation_flow
CaughtByFlow == {"ValidationError", "CropDataError", "WeatherAPIError",
                 "KeyboardInterrupt"}

\* a variant of the except clauses that lets the user retry after a failure
\* of the weather service too
run_calculation_flow_except_retry(exc) ==
    exc \in {"ValidationError", "CropDataError", "WeatherAPIError"}

\* what run_calculation_flow returns from the except clause that catches exc
run_calculation_flow_except(exc) ==
    IF exc \in {"ValidationError", "CropDataError"} THEN TRUE
    ELSE IF exc = "WeatherAPIError" THEN FALSE
    ELSE FALSE

\* what post_calculation_menu returns on the choices that leave its loop
post_calculation_menu_returns(choice) ==
    IF choice = "4" THEN TRUE ELSE FALSE

\* run_calculation_flow returns to start(): keep_running = returned
FlowReturns(ended, returned) ==
    /\ cli_flows' = Append(cli_flows, [ended |-> ended, returned |-> returned])
    /\ cli_pc' = IF returned THEN "loop" ELSE "ended"
    /\ cli_choice' = ""

\* an exception exc reaches the try statement of run_calculation_flow
FlowExcept(exc) ==
    IF exc \in CaughtByFlow
        THEN FlowReturns(exc, run_calculation_flow_except(exc))
    ELSE /\ cli_pc' = "raised"
         /\ UNCHANGED <<cli_choice, cli_flows>>

\* AgriWaterCLI.start: keep_running = True
CliStart ==
    /\ cli_pc = "created"
    /\ cli_pc' = "loop"
    /\ UNCHANGED <<cli_choice, cli_flows>>
    /\ UNCHANGED <<apiVars, etVars, calcVars, utilVars>>

\* while keep_running: the next run_calculation_flow begins
CliRunCalculationFlow ==
    /\ cli_pc = "loop"
    /\ Len(cli_flows) < MaxFlows
    /\ cli_pc' = "prompts"
    /\ UNCHANGED <<cli_choice, cli_flows>>
    /\ UNCHANGED <<apiVars, etVars, calcVars, utilVars>>

\* steps 1 to 5: the user answers the prompts, or presses Ctrl-C
CliPrompts ==
    /\ cli_pc = "prompts"
    /\ \E exc \in {"None", "KeyboardInterrupt"} :
          IF exc = "None"
              THEN /\ cli_pc' = "calculate"
                   /\ UNCHANGED <<cli_choice, cli_flows>>
          ELSE FlowExcept(exc)
    /\ UNCHANGED <<apiVars, etVars, calcVars, utilVars>>

\* steps 6 to 8: the calculator is built and the summary computed and shown
CliCalculate ==
    /\ cli_pc = "calculate"
    /\ \E exc \in CliOutcomes :
          IF exc = "None"
              THEN /\ cli_pc' = "menu"
                   /\ UNCHANGED <<cli_choice, cli_flows>>
          ELSE FlowExcept(exc)
    /\ UNCHANGED <<apiVars, etVars, calcVars, utilVars>>

\* step 9, one turn of the loop of post_calculation_menu: the user chooses
\* (or presses Ctrl-C) and the chosen action runs
CliPostCalculationMenu ==
    /\ cli_pc = "menu"
    /\ \/ FlowExcept("KeyboardInterrupt")
       \/ \E choice \in MenuChoices, exc \in CliOutcomes :
             IF choice \in {"4", "5"}
                 THEN /\ exc = "None"
                      /\ FlowReturns(choice,
                                     post_calculation_menu_returns(choice))
             ELSE IF exc = "None"
                 THEN /\ cli_choice' = choice
                      /\ UNCHANGED <<cli_pc, cli_flows>>
             ELSE FlowExcept(exc)
    /\ UNCHANGED <<apiVars, etVars, calcVars, utilVars>>

InitApi ==
    /\ api_strategy = "raise"
    /\ api_data = NoResponse
    /\ api_ret = ApiIdle

InitEt ==
    /\ et_built = FALSE
    /\ et_weather_data = <<>>
    /\ et_has_etc = FALSE
    /\ et_crop_kc = F(0)
    /\ et_ret = EtIdle

InitCalc ==
    /\ calc_built = FALSE
    /\ crop_name = ""
    /\ crop_stage = ""
    /\ crop_kc = F(0)
    /\ irrigation_interval = <<0, 0>>
    /\ surface_ha = F(0)
    /\ weather_loaded = FALSE
    /\ weather_data = <<>>
    /\ calc_ret = CalcIdle

InitUtil == util_ret = UtilIdle

InitCli ==
    /\ cli_pc = "created"
    /\ cli_choice = ""
    /\ cli_flows = <<>>

Init == InitApi /\ InitEt /\ InitCalc /\ InitUtil /\ InitCli

NextMeteo == ParseResponse \/ FetchWeatherData \/ ApiReturn

SpecMeteo == Init /\ [][NextMeteo]_vars

NextEngine ==
    \/ EtConstruct
    \/ EtCalculateEtc
    \/ EtCumulativePrecipitation
    \/ EtAverageEtc
    \/ EtIrrigationNeed
    \/ EtIrrigationVolume
    \/ EtReturn

SpecEngine == Init /\ [][NextEngine]_vars

Next ==
    \/ CalcConstruct
    \/ CalcFetchWeatherData
    \/ CalcCalculateIrrigationNeeds
    \/ CalcGetWeatherSummary
    \/ CalcGenerateAgronomicSummary
    \/ CalcExportResultsToCsv
    \/ CalcReturn

Spec == Init /\ [][Next]_vars

NextUtils ==
    \/ UtCoordinatesValidation
    \/ UtConvertM3ToMm
    \/ UtRoundTrip
    \/ UtReturn

SpecUtils == Init /\ [][NextUtils]_vars

NextCli ==
    \/ CliStart
    \/ CliRunCalculationFlow
    \/ CliPrompts
    \/ CliCalculate
    \/ CliPostCalculationMenu

SpecCli == Init /\ [][NextCli]_vars

(***************************************************************************)
(* Properties of the engine (specification SpecEngine).                    *)
(***************************************************************************)
\* the sum of col[lo], ..., col[hi]
RECURSIVE SumRange(_, _, _)
SumRange(col, lo, hi) ==
    IF lo > hi THEN F(0) ELSE FAdd(col[hi], SumRange(col, lo, hi - 1))

EtLen == Len(et_weather_data)
\* the sum of precipitation over the last n records of the engine's series
LastPrecipitation(n) ==
    SumRange(Column(et_weather_data, "precipitation"), EtLen - n + 1, EtLen)
\* the sum of et0 * kc over the last n records of the engine's series
LastEtc(n) ==
    SumRange([i \in 1..EtLen |-> FMul(et_weather_data[i].et0_fao, et_crop_kc)],
             EtLen - n + 1, EtLen)
ValidEfficiency(eff) == FLt(F(0), eff) /\ FLe(eff, F(1))

\* C1: for an engine over a series of length L >= 1 without missing values,
\* 1 <= period_days <= L and efficiency in (0,1], irrigation_need returns
\* avg_etc_mm_day = the mean of etc over the last period_days records,
\* total_etc_mm = avg_etc_mm_day * period_days, total_precipitation_mm = the
\* sum of precipitation over the last period_days records,
\* net = max(0, total_etc - total_precipitation), and gross = net / efficiency
\* when net > 0 and 0 otherwise.
C1_IrrigationNeedResult ==
    (/\ et_ret.op = "calculate_irrigation_need"
     /\ 1 <= et_ret.args.period_days
     /\ et_ret.args.period_days <= EtLen
     /\ ValidEfficiency(et_ret.args.efficiency))
    => /\ et_ret.exc = "None"
       /\ LET v == et_ret.value
              n == et_ret.args.period_days
              eff == et_ret.args.efficiency
              balance == FSub(v.total_etc_mm, v.total_precipitation_mm)
          IN /\ DOMAIN v = {"avg_etc_mm_day", "total_etc_mm",
                            "total_precipitation_mm",
                            "net_irrigation_need_mm",
                            "gross_irrigation_need_mm"}
             /\ v.avg_etc_mm_day = FDiv(LastEtc(n), F(n))
             /\ v.total_etc_mm = FMul(v.avg_etc_mm_day, F(n))
             /\ v.total_precipitation_mm = LastPrecipitation(n)
             /\ v.net_irrigation_need_mm =
                    (IF FGt(balance, F(0)) THEN balance ELSE F(0))
             /\ IF FGt(v.net_irrigation_need_mm, F(0))
                    THEN FMul(v.gross_irrigation_need_mm, eff)
                             = v.net_irrigation_need_mm
                ELSE v.gross_irrigation_need_mm = F(0)

\* a need computed over a window shorter than the series, with a deficit and
\* an efficiency below 1
C1_Witness ==
    /\ et_ret.op = "calculate_irrigation_need"
    /\ et_ret.exc = "None"
    /\ et_ret.args.period_days < EtLen
    /\ et_ret.args.period_days >= 2
    /\ FLt(et_ret.args.efficiency, F(1))
    /\ FGt(et_ret.value.net_irrigation_need_mm, F(0))
    /\ FGt(et_ret.value.total_precipitation_mm, F(0))
    /\ FGt(et_ret.value.gross_irrigation_need_mm,
           et_ret.value.net_irrigation_need_mm)

\* the last call was generate_agronomic_summary and it returned a summary
Summarised ==
    /\ calc_ret.op = "generate_agronomic_summary"
    /\ calc_ret.exc = "None"

FAbs(x) == IF FLt(x, F(0)) THEN FSub(F(0), x) ELSE x

\* C2: the summary generate_agronomic_summary returns has water_balance_mm =
\* total_precip_mm - total_etc_mm, irrigation_required true exactly when
\* water_balance_mm < 0, recommended_mm = |water_balance_mm| when irrigation
\* is required and 0 otherwise, and on a zero or positive balance
\* recommended_mm and recommended_total_m3 are both 0.
C2_AgronomicDecisionRule ==
    Summarised =>
        LET v == calc_ret.value
        IN /\ v.water_balance_mm = FSub(v.total_precip_mm, v.total_etc_mm)
           /\ v.irrigation_required <=> FLt(v.water_balance_mm, F(0))
           /\ v.irrigation_required
                => v.recommended_mm = FAbs(v.water_balance_mm)
           /\ ~v.irrigation_required => v.recommended_mm = F(0)
           /\ FGe(v.water_balance_mm, F(0))
                => /\ v.recommended_mm = F(0)
                   /\ v.recommended_total_m3 = F(0)

\* a summary over a deficit: irrigation required, a positive depth recommended
C2_Witness ==
    /\ Summarised
    /\ FLt(calc_ret.value.water_balance_mm, F(0))
    /\ calc_ret.value.irrigation_required
    /\ FGt(calc_ret.value.recommended_mm, F(0))
    /\ FGt(calc_ret.value.recommended_total_m3, F(0))

\* the period a call of calculate_irrigation_needs computes over
CalcPeriodOfCall(args) ==
    IF args.period_days = None THEN MaxOf(irrigation_interval)
    ELSE args.period_days[1]

\* C3: a call of calculate_irrigation_needs on an orchestrator that holds a
\* series shorter than the requested period fetches a series covering at
\* least that many days, and does not fail on, or compute over, the series
\* it held.
C3_RefetchWhenPeriodExceedsSeries ==
    [][(/\ calc_ret = CalcIdle
        /\ calc_ret'.op = "calculate_irrigation_needs"
        /\ weather_loaded
        /\ Len(weather_data) >= 1
        /\ ValidEfficiency(calc_ret'.args.efficiency)
        /\ CalcPeriodOfCall(calc_ret'.args) >= 1
        /\ CalcPeriodOfCall(calc_ret'.args) > Len(weather_data))
       => /\ calc_ret'.fetched # <<>>
          /\ calc_ret'.fetched[1] >= CalcPeriodOfCall(calc_ret'.args)]_vars

\* C4: cumulative_precipitation(N) on a series of length L returns the sum of
\* the precipitation of the last N records when 1 <= N <= L (the whole sum
\* when N = L), and fails with ValidationError when N <= 0 or N > L.
C4_CumulativePrecipitation ==
    et_ret.op = "calculate_cumulative_precipitation"
    => LET n == et_ret.args.period_days
       IN IF 1 <= n /\ n <= EtLen
              THEN /\ et_ret.exc = "None"
                   /\ et_ret.value.float = LastPrecipitation(n)
                   /\ n = EtLen =>
                        et_ret.value.float =
                            SumSeq(Column(et_weather_data, "precipitation"))
          ELSE et_ret.exc = "ValidationError"

\* a sum over a window that leaves rain out: it differs from the whole sum
C4_Witness ==
    /\ et_ret.op = "calculate_cumulative_precipitation"
    /\ et_ret.exc = "None"
    /\ et_ret.args.period_days < EtLen
    /\ FGt(et_ret.value.float, F(0))
    /\ et_ret.value.float # SumSeq(Column(et_weather_data, "precipitation"))

\* the period_days of the last engine call, 0 when it took none
EtPeriodOfCall ==
    IF et_ret.op = "calculate_average_etc"
        THEN IF et_ret.args.period_days = None THEN 0
             ELSE et_ret.args.period_days[1]
    ELSE IF et_ret.op \in {"calculate_cumulative_precipitation",
                           "calculate_irrigation_need",
                           "calculate_irrigation_volume"}
        THEN et_ret.args.period_days
    ELSE 0

\* C5: every engine operation that takes period_days fails with
\* ValidationError when period_days exceeds the number of records of the
\* series; none returns a value computed over a shorter window.
C5_PeriodBeyondSeriesRaises ==
    EtPeriodOfCall > EtLen => et_ret.exc = "ValidationError"

\* the three operations other than calculate_average_etc do raise
C5_OthersRaise ==
    (EtPeriodOfCall > EtLen /\ et_ret.op # "calculate_average_etc")
    => et_ret.exc = "ValidationError"

\* C6: with non-negative et0 and precipitation and valid surface_ha,
\* period_days and efficiency, the results of irrigation_need and
\* irrigation_volume satisfy net >= 0, gross >= net,
\* gross_volume_m3 >= net_volume_m3 >= 0, and every numeric field is >= 0.
C6_NonNegativeResults ==
    (/\ et_ret.op \in {"calculate_irrigation_need",
                       "calculate_irrigation_volume"}
     /\ et_ret.exc = "None")
    => LET v == et_ret.value
       IN /\ \A k \in DOMAIN v : FGe(v[k], F(0))
          /\ FGe(v.gross_irrigation_need_mm, v.net_irrigation_need_mm)
          /\ et_ret.op = "calculate_irrigation_volume" =>
                /\ FGe(v.net_volume_m3, F(0))
                /\ FGe(v.gross_volume_m3, v.net_volume_m3)

\* a volume result where precipitation exceeds the crop demand (the clamp
\* acts), and one can see the series has rain and demand
C6_Witness ==
    /\ et_ret.op = "calculate_irrigation_volume"
    /\ et_ret.exc = "None"
    /\ FGt(et_ret.value.total_etc_mm, F(0))
    /\ FGt(et_ret.value.total_precipitation_mm, et_ret.value.total_etc_mm)
    /\ et_ret.value.net_volume_m3 = F(0)

(***************************************************************************)
(* Properties of the normalisation (specification SpecMeteo).              *)
(***************************************************************************)
\* the last call parsed a response that has the expected keys
Parsed == api_ret.op \in {"parse", "fetch"} /\ api_data.has_keys
RawIn == api_data.daily
DfOut == api_ret.df
RawMissing(i, c) == isna(RawIn[i][c])
RawAnyMissing ==
    \E i \in 1..Len(RawIn) : \E c \in NumericColumns : RawMissing(i, c)
\* row k of the result is the record of day i of the response, unchanged
SameRecord(k, i) ==
    /\ DfOut[k].date = i
    /\ \A c \in NumericColumns : DfOut[k][c] = RawIn[i][c]

\* C7: a strategy name other than the four literal names (case-sensitive) is
\* rejected with ValidationError at the normalisation of a fetched series,
\* also when that series has no missing value.
C7_UnknownStrategyRejected ==
    (Parsed /\ Len(RawIn) >= 1 /\ api_strategy \notin ALLOWED_STRATEGIES)
    => api_ret.exc = "ValidationError"

\* C8: under "raise", normalisation fails with WeatherAPIError if and only if
\* at least one value of the series is missing; with no missing value it
\* returns the series as it came: same records, same order, same values.
C8_RaisePolicy ==
    (Parsed /\ api_strategy = "raise")
    => /\ (api_ret.exc = "WeatherAPIError") <=> RawAnyMissing
       /\ ~RawAnyMissing =>
             /\ api_ret.exc = "None"
             /\ Len(DfOut) = Len(RawIn)
             /\ \A i \in 1..Len(RawIn) : SameRecord(i, i)

\* a complete series of several days passed through under "raise"
C8_Witness ==
    /\ Parsed
    /\ api_strategy = "raise"
    /\ api_ret.exc = "None"
    /\ Len(RawIn) >= 2
    /\ Len(DfOut) = Len(RawIn)

\* the days of the response whose record has no missing field
CompleteDays ==
    {i \in 1..Len(RawIn) : \A c \in NumericColumns : ~RawMissing(i, c)}

\* C9: under "drop", the normalised series is exactly the input records that
\* have no missing field, in their original order: no missing value in it,
\* never longer than the input, every complete record kept unchanged.
C9_DropPolicy ==
    (Parsed /\ api_strategy = "drop")
    => /\ api_ret.exc = "None"
       /\ Len(DfOut) <= Len(RawIn)
       /\ Len(DfOut) = Cardinality(CompleteDays)
       /\ \A k \in 1..Len(DfOut) :
             /\ DfOut[k].date \in CompleteDays
             /\ SameRecord(k, DfOut[k].date)
             /\ \A c \in NumericColumns : ~isna(DfOut[k][c])
             /\ k < Len(DfOut) => DfOut[k].date < DfOut[k + 1].date

\* a series from which an incomplete day between two complete days is dropped
C9_Witness ==
    /\ Parsed
    /\ api_strategy = "drop"
    /\ api_ret.exc = "None"
    /\ Len(RawIn) = 3
    /\ CompleteDays = {1, 3}
    /\ Len(DfOut) = 2
    /\ RawIn[1] # RawIn[3]

\* day i of column c is missing between the known days a and b, its nearest
\* known neighbours
BoundedGap(c, a, i, b) ==
    /\ a < i
    /\ i < b
    /\ ~RawMissing(a, c)
    /\ ~RawMissing(b, c)
    /\ \A j \in (a + 1)..(b - 1) : RawMissing(j, c)

C11_ZeroFillPolicy ==
    (Parsed /\ api_strategy = "zero")
    => /\ api_ret.exc = "None"
       /\ Len(DfOut) = Len(RawIn)
       /\ \A i \in 1..Len(RawIn) :
             /\ DfOut[i].date = i
             /\ \A c \in NumericColumns :
                   /\ ~RawMissing(i, c) => DfOut[i][c] = RawIn[i][c]
                   /\ RawMissing(i, c) => DfOut[i][c] = F(0)
                   /\ ~isna(DfOut[i][c])

\* a series with a missing temperature and a present value next to it, filled
C11_Witness ==
    /\ Parsed
    /\ api_strategy = "zero"
    /\ api_ret.exc = "None"
    /\ Len(RawIn) >= 2
    /\ \E i \in 1..Len(RawIn) :
          /\ RawMissing(i, "temp_mean")
          /\ DfOut[i].temp_mean = F(0)
          /\ ~RawMissing(i, "et0_fao")
          /\ DfOut[i].et0_fao = F(3)

\* C12: whenever the orchestrator holds a weather series, no numeric field
\* of any of its records is missing, whatever the weather source returned.
C12_HeldSeriesHasNoMissingValue ==
    weather_loaded =>
        \A i \in 1..Len(weather_data) :
            \A c \in NumericColumns : ~isna(weather_data[i][c])

\* a fetch on an orchestrator that held a series of several days failed (the
\* source timed out, or returned a series with a missing value) and the
\* series held is still there
C12_Witness ==
    /\ calc_ret.op \in {"fetch_weather_data"}
    /\ calc_ret.exc = "WeatherAPIError"
    /\ calc_ret.fetched = <<2>>
    /\ weather_loaded
    /\ Len(weather_data) >= 2

\* C13: calculate_etc returns one etc value per record of the series, in the
\* order of the series, each equal to that record's et0 multiplied by kc,
\* for every kc in [0, 2].
C13_ComputeEtc ==
    (et_ret.op = "calculate_etc")
    => /\ et_ret.exc = "None"
       /\ FLe(F(0), et_crop_kc) /\ FLe(et_crop_kc, F(2))
       /\ Len(et_ret.value.df) = EtLen
       /\ \A i \in 1..EtLen :
             /\ et_ret.value.df[i].date = i
             /\ et_ret.value.df[i].et0_fao = et_weather_data[i].et0_fao
             /\ et_ret.value.df[i].etc
                    = FMul(et_weather_data[i].et0_fao, et_crop_kc)

\* etc computed with kc = 1.2 over a series with a day of et0 3 (etc 3.6)
\* followed by a day of et0 0 (etc 0)
C13_Witness ==
    /\ et_ret.op = "calculate_etc"
    /\ et_crop_kc = Frac(6, 5)
    /\ \E i \in 1..(EtLen - 1) :
          /\ et_ret.value.df[i].etc = Frac(18, 5)
          /\ et_ret.value.df[i + 1].etc = F(0)

NeedFields == {"avg_etc_mm_day", "total_etc_mm", "total_precipitation_mm",
               "net_irrigation_need_mm", "gross_irrigation_need_mm"}

\* C14: calculate_irrigation_volume returns every field of
\* calculate_irrigation_need for the same period and efficiency with the same
\* value, plus surface_ha, net_volume_m3 = net_irrigation_need_mm * 10 *
\* surface_ha and gross_volume_m3 = gross_irrigation_need_mm * 10 * surface_ha.
C14_IrrigationVolume ==
    (et_ret.op = "calculate_irrigation_volume" /\ et_ret.exc = "None")
    => LET v == et_ret.value
           a == et_ret.args
           need == calculate_irrigation_need(Self, a.period_days,
                                             a.efficiency)
       IN /\ need.exc = "None"
          /\ DOMAIN v = NeedFields \cup {"surface_ha", "net_volume_m3",
                                         "gross_volume_m3"}
          /\ \A k \in NeedFields : v[k] = need.value[k]
          /\ v.surface_ha = a.surface_ha
          /\ v.net_volume_m3
                = FMul(FMul(v.net_irrigation_need_mm, F(10)), a.surface_ha)
          /\ v.gross_volume_m3
                = FMul(FMul(v.gross_irrigation_need_mm, F(10)), a.surface_ha)

\* a volume over 2.5 ha with a deficit and an efficiency below 1
C14_Witness ==
    /\ et_ret.op = "calculate_irrigation_volume"
    /\ et_ret.exc = "None"
    /\ et_ret.args.surface_ha = Frac(5, 2)
    /\ FGt(et_ret.value.net_volume_m3, F(0))
    /\ FGt(et_ret.value.gross_volume_m3, et_ret.value.net_volume_m3)

\* C15: a call of calculate_irrigation_needs on an orchestrator that holds a
\* series, with a period within the length of that series, makes no weather
\* fetch and leaves the orchestrator as it was; what it returns or raises is
\* the engine's answer over the held series for that (period_days,
\* efficiency), so that two such calls with equal arguments end equally.
C15_CachedSeriesReused ==
    [][(/\ calc_ret = CalcIdle
        /\ calc_ret'.op = "calculate_irrigation_needs"
        /\ weather_loaded
        /\ 1 <= CalcPeriodOfCall(calc_ret'.args)
        /\ CalcPeriodOfCall(calc_ret'.args) <= Len(weather_data))
       => /\ calc_ret'.fetched = <<>>
          /\ weather_loaded'
          /\ weather_data' = weather_data
          /\ UNCHANGED calcSelf
          /\ LET r == calculate_irrigation_volume(
                          NewEngine(weather_data, crop_kc), surface_ha,
                          CalcPeriodOfCall(calc_ret'.args),
                          calc_ret'.args.efficiency)
             IN /\ calc_ret'.exc = r.exc
                /\ calc_ret'.value = r.value]_vars

\* needs computed from the series held, over a window shorter than it
C15_Witness ==
    /\ calc_ret.op = "calculate_irrigation_needs"
    /\ calc_ret.exc = "None"
    /\ calc_ret.fetched = <<>>
    /\ weather_loaded
    /\ CalcPeriodOfCall(calc_ret.args) < Len(weather_data)

TypedErrors == {"ValidationError", "WeatherAPIError", "CalculationError",
                "CropDataError"}

C17_FailedFetchLeavesState ==
    [][(/\ calc_ret = CalcIdle
        /\ calc_ret'.fetched # <<>>
        /\ calc_ret'.exc = "WeatherAPIError")
       => /\ weather_loaded' = weather_loaded
          /\ weather_data' = weather_data
          /\ calc_ret'.value = [none |-> TRUE]]_vars

\* the default fetch of get_weather_summary failed on an orchestrator without
\* a series, which still has none
C17_Witness ==
    /\ calc_ret.op = "get_weather_summary"
    /\ calc_ret.exc = "WeatherAPIError"
    /\ calc_ret.fetched = <<DefaultNbDays>>
    /\ ~weather_loaded
    /\ weather_data = <<>>

CalculationOps == {"calculate_irrigation_needs", "get_weather_summary",
                   "export_results_to_csv"}

\* C18: no calculation operation of the orchestrator changes a series it
\* holds, and the series held after it has no etc column.
C18_StoredSeriesUntouched ==
    [][(calc_ret = CalcIdle /\ calc_ret'.op \in CalculationOps)
       => /\ weather_loaded => (weather_loaded' /\ weather_data' = weather_data)
          /\ \A i \in 1..Len(weather_data') :
                "etc" \notin DOMAIN weather_data'[i]]_vars

\* get_weather_summary returned a frame with an etc column and the series
\* held has none
C18_Witness ==
    /\ calc_ret.op = "get_weather_summary"
    /\ calc_ret.exc = "None"
    /\ calc_ret.fetched = <<>>
    /\ Len(weather_data) >= 2
    /\ Len(calc_ret.value.df) = Len(weather_data)
    /\ \A i \in 1..Len(weather_data) :
          /\ "etc" \in DOMAIN calc_ret.value.df[i]
          /\ "etc" \notin DOMAIN weather_data[i]

\* C19: a fetch whose request times out, is answered with an HTTP error
\* status, fails in transport, or is answered with a payload that lacks an
\* expected key, raises WeatherAPIError: no series is returned, and no other
\* kind of error.
C19_FetchFailuresAreWeatherAPIError ==
    (/\ api_ret.op = "fetch"
     /\ api_ret.days_count >= 1
     /\ (api_ret.outcome # "ok" \/ ~api_data.has_keys))
    => /\ api_ret.exc = "WeatherAPIError"
       /\ api_ret.df = <<>>

\* a request that timed out
C19_Witness ==
    /\ api_ret.op = "fetch"
    /\ api_ret.days_count >= 1
    /\ api_ret.outcome = "Timeout"
    /\ api_ret.exc = "WeatherAPIError"

\* C20: a failure of the weather source during an operation of the
\* orchestrator surfaces as a WeatherAPIError raised by the orchestrator from
\* the original failure, which it keeps as its cause.
C20_FetchFailureRewrapped ==
    (calc_ret.fetched # <<>> /\ calc_ret.exc = "WeatherAPIError")
    => calc_ret.cause = "WeatherAPIError"

AbsentCropOrStage(args) ==
    \/ lower(args.crop_name) \notin DOMAIN CropData
    \/ lower(args.crop_stage)
         \notin DOMAIN CropData["wheat"].phenological_stages

\* C25: constructing the orchestrator with valid coordinates and a crop name
\* or growth stage that is absent from the crop table fails with
\* CropDataError, and no orchestrator is built.
C25_MissingCropIsCropDataError ==
    (/\ calc_ret.op = "init"
     /\ coordinates_validation(calc_ret.args.latitude,
                               calc_ret.args.longitude) = "None"
     /\ AbsentCropOrStage(calc_ret.args))
    => (calc_ret.exc = "CropDataError" /\ ~calc_built)

\* the longest recommended interval of the crop of the orchestrator
LongestInterval ==
    CHOOSE m \in {irrigation_interval[1], irrigation_interval[2]} :
        m >= irrigation_interval[1] /\ m >= irrigation_interval[2]

\* C26: a call of calculate_irrigation_needs with period_days unspecified
\* computes over the crop's longest recommended irrigation interval (the
\* totals it returns are those of that many last days of the stored series),
\* and when no series is held yet the fetch asks for that number of days.
C26_DefaultPeriod ==
    [][(/\ calc_ret = CalcIdle
        /\ calc_ret'.op = "calculate_irrigation_needs"
        /\ calc_ret'.args.period_days = None)
       => /\ ~weather_loaded => calc_ret'.fetched = <<LongestInterval>>
          /\ calc_ret'.exc = "None"
             => /\ calc_ret'.value.total_precipitation_mm
                     = sum(tail(Column(weather_data', "precipitation"),
                                LongestInterval))
                /\ calc_ret'.value.total_etc_mm
                     = FMul(calc_ret'.value.avg_etc_mm_day,
                            F(LongestInterval))]_vars

\* a first call without a period fetched two days (wheat: interval 1 to 2)
\* and computed over the last two of the three days it received
C26_Witness ==
    /\ calc_ret.op = "calculate_irrigation_needs"
    /\ calc_ret.args.period_days = None
    /\ calc_ret.exc = "None"
    /\ calc_ret.fetched = <<2>>
    /\ Len(weather_data) = 3
    /\ calc_ret.value.total_precipitation_mm = F(4)

\* C27: every agronomic summary has recommended_m3_per_ha = recommended_mm *
\* 10 and recommended_total_m3 = recommended_m3_per_ha * surface_ha, with
\* recommended_mm >= 0.
C27_SummaryVolumes ==
    Summarised =>
        LET v == calc_ret.value
        IN /\ v.recommended_m3_per_ha = FMul(v.recommended_mm, F(10))
           /\ v.recommended_total_m3
                = FMul(v.recommended_m3_per_ha, v.surface_ha)
           /\ v.surface_ha = surface_ha
           /\ FGe(v.recommended_mm, F(0))

\* a summary that recommends a positive depth on a field of 2.5 ha
C27_Witness ==
    /\ Summarised
    /\ calc_ret.value.surface_ha = Frac(5, 2)
    /\ FGt(calc_ret.value.recommended_mm, F(0))
    /\ calc_ret.value.recommended_total_m3
         = FMul(FMul(calc_ret.value.recommended_mm, F(10)), Frac(5, 2))

\* C29: a call of calculate_irrigation_needs that fails with ValidationError
\* because efficiency is outside (0,1] or period_days <= 0 sends no request
\* to the weather source and leaves the orchestrator's stored series as it
\* was before the call.
C29_ValidationFailureFetchesNothing ==
    [][(/\ calc_ret = CalcIdle
        /\ calc_ret'.op = "calculate_irrigation_needs"
        /\ calc_ret'.exc = "ValidationError"
        /\ \/ ~ValidEfficiency(calc_ret'.args.efficiency)
           \/ CalcPeriodOfCall(calc_ret'.args) <= 0)
       => /\ calc_ret'.fetched = <<>> \/ calc_ret'.fetched[1] <= 0
          /\ weather_loaded' = weather_loaded
          /\ weather_data' = weather_data]_vars

(***************************************************************************)
(* Properties of the utils functions (specification SpecUtils).            *)
(***************************************************************************)
\* a coordinate the validation has to reject: not a number or out of range
InvalidLatitude(latitude) ==
    ~latitude.is_number
    \/ ~(FLe(F(-90), latitude.value) /\ FLe(latitude.value, F(90)))
InvalidLongitude(longitude) ==
    ~longitude.is_number
    \/ ~(FLe(F(-180), longitude.value) /\ FLe(longitude.value, F(180)))

Mentions(errors, what) ==
    \E i \in 1..Len(errors) : errors[i] \in {what \o " type", what \o " range"}

\* C23: whenever both latitude and longitude are invalid (each not a number
\* or out of its range, in any combination), coordinates_validation raises
\* one ValidationError whose message reports a violation of the latitude and
\* a violation of the longitude.
C23_BothViolationsReported ==
    (/\ util_ret.op = "coordinates_validation"
     /\ InvalidLatitude(util_ret.args[1])
     /\ InvalidLongitude(util_ret.args[2]))
    => /\ util_ret.exc = "ValidationError"
       /\ Mentions(util_ret.errors, "latitude")
       /\ Mentions(util_ret.errors, "longitude")

\* C24: coordinates_validation succeeds for every numeric (lat, lon) with
\* -90 <= lat <= 90 and -180 <= lon <= 180, bounds included, and raises
\* ValidationError whenever either value is not a number or strictly
\* outside its range.
C24_CoordinatesValidation ==
    util_ret.op = "coordinates_validation"
    => LET lat == util_ret.args[1]
           lon == util_ret.args[2]
       IN /\ (/\ lat.is_number /\ lon.is_number
              /\ FLe(F(-90), lat.value) /\ FLe(lat.value, F(90))
              /\ FLe(F(-180), lon.value) /\ FLe(lon.value, F(180)))
             => util_ret.exc = "None"
          /\ (\/ ~lat.is_number \/ ~lon.is_number
              \/ (lat.is_number /\ (\/ FLt(lat.value, F(-90))
                                    \/ FGt(lat.value, F(90))))
              \/ (lon.is_number /\ (\/ FLt(lon.value, F(-180))
                                    \/ FGt(lon.value, F(180)))))
             => util_ret.exc = "ValidationError"

\* the validation has accepted a pair that lies on both bounds
C24_Witness ==
    /\ util_ret.op = "coordinates_validation"
    /\ util_ret.args = <<Num(F(90)), Num(F(-180))>>
    /\ util_ret.exc = "None"

\* C28: for every depth mm and every surface_ha > 0,
\* convert_m3_to_mm(convert_mm_to_m3_per_ha(mm) * surface_ha, surface_ha)
\* equals mm exactly; convert_m3_to_mm raises ValidationError when
\* surface_ha <= 0.
C28_ConversionRoundTrip ==
    /\ util_ret.op = "round_trip"
       => IF FGt(util_ret.args[2], F(0))
          THEN util_ret.exc = "None" /\ util_ret.value = util_ret.args[1]
          ELSE util_ret.exc = "ValidationError"
    /\ (util_ret.op = "convert_m3_to_mm" /\ FLe(util_ret.args[2], F(0)))
       => util_ret.exc = "ValidationError"

(***************************************************************************)
(* Properties of the CLI session (specification SpecCli).                  *)
(***************************************************************************)
\* C30: the session runs calculation flows one after another until a flow
\* returns false: a flow that ends in ValidationError or CropDataError
\* returns true, a flow that ends in WeatherAPIError or in the user's
\* interrupt returns false, a flow that ends in the menu returns true on
\* choice 4 (run a new calculation) and false on choice 5 (exit); every
\* flow but the last returned true, and start() has returned exactly when
\* the last flow returned false.
C30_SessionLoop ==
    /\ \A i \in 1..Len(cli_flows) :
          LET f == cli_flows[i]
          IN /\ f.ended \in {"ValidationError", "CropDataError"}
                  => f.returned
             /\ f.ended \in {"WeatherAPIError", "KeyboardInterrupt"}
                  => ~f.returned
             /\ f.ended = "4" => f.returned
             /\ f.ended = "5" => ~f.returned
             /\ i < Len(cli_flows) => f.returned
    /\ cli_pc = "ended"
          <=> (cli_flows # <<>> /\ ~cli_flows[Len(cli_flows)].returned)
    /\ cli_pc \in {"loop", "prompts", "calculate", "menu"}
          => (cli_flows = <<>> \/ cli_flows[Len(cli_flows)].returned)

\* a session of three flows: an input error, then a calculation followed by
\* 'run a new calculation', then a failure of the weather service
C30_Witness ==
    /\ cli_pc = "ended"
    /\ Len(cli_flows) = 3
    /\ cli_flows[1].ended = "ValidationError"
    /\ cli_flows[2].ended = "4"
    /\ cli_flows[3].ended = "WeatherAPIError"

====
